---- MODULE Spec2Model ----
(***************************************************************************)
(* Library management system: a Flask application over one SQLite store   *)
(* with three relations (books, members, loans).  The request handlers     *)
(* are modelled twice from the same statements: as whole calls (the        *)
(* serialized specifications Spec and SpecCatalog) and statement by        *)
(* statement (SpecConc), where the statements of concurrent handlers       *)
(* interleave.  Every query_db / execute_db call is one atomic statement   *)
(* of the store; execute_db commits right after its statement.             *)
(***************************************************************************)
EXTENDS Integers, Sequences, FiniteSets, TLC

(* ------------------------------ bounds --------------------------------- *)
\* ids that add_book / add_member may assign in SpecCatalog and SpecCopies
MaxBooks == 2
MaxMembers == 2
\* loans that borrow_book may insert, and the last tick of the clock
MaxLoans == 3
MaxClock == 1
\* loans that borrow_book may insert in SpecConc
ConcLoans == 2

(* ------------------------------- text ---------------------------------- *)
\* Text is a tuple of one-character strings; SQL NULL / Python None is a
\* value that no text equals.
NULL == <<"NULL">>

RECURSIVE lstrip(_)
lstrip(s) == IF s # <<>> /\ Head(s) = " " THEN lstrip(Tail(s)) ELSE s

RECURSIVE rstrip(_)
rstrip(s) == IF s # <<>> /\ s[Len(s)] = " " THEN rstrip(SubSeq(s, 1, Len(s) - 1)) ELSE s

\* str.strip()
strip(s) == rstrip(lstrip(s))

\* `x or None`: the empty text becomes None
OrNone(s) == IF s = <<>> THEN NULL ELSE s

\* request.form.get(key,'').strip() or None
FormKey(s) == OrNone(strip(s))

Digit(n) == <<"0", "1", "2", "3", "4", "5", "6", "7", "8", "9">>[n + 1]

\* a format that prints the fraction when it is zero and drops it otherwise
isoformat_swapped(t) ==
    IF t % 2 = 0 THEN <<Digit(t \div 2), ".", "5">> ELSE <<Digit(t \div 2)>>

\* datetime.utcnow().isoformat(): the clock counts half seconds; isoformat
\* prints the fraction only when it is not zero.
isoformat(t) ==
    IF t % 2 = 0 THEN <<Digit(t \div 2)>> ELSE <<Digit(t \div 2), ".", "5">>

\* the code point of a character of a timestamp ("." sorts before the digits)
Ord(c) == IF c = "." THEN 46
          ELSE 48 + (CHOOSE n \in 0 .. 9 : Digit(n) = c)

\* text comparison a <= b of SQLite's BINARY collation (ORDER BY borrowed_on)
RECURSIVE TextLeq(_, _)
TextLeq(a, b) ==
    IF a = <<>> THEN TRUE
    ELSE IF b = <<>> THEN FALSE
    ELSE IF Head(a) # Head(b) THEN Ord(Head(a)) < Ord(Head(b))
    ELSE TextLeq(Tail(a), Tail(b))

(* ------------------------------- state --------------------------------- *)
VARIABLES
    books,      \* relation books:   id -> [title, author, isbn, copies]
    members,    \* relation members: id -> [name, email]
    loans,      \* relation loans:   id -> [book_id, member_id, borrowed_on, returned_on]
    seq,        \* sqlite_sequence (AUTOINCREMENT): largest id ever assigned per relation
    clock,      \* the wall clock read by datetime.utcnow()
    response,   \* what the last finished request showed: its flash message, else its page
    pc,         \* SpecConc: the statement each handler thread is at
    local       \* SpecConc: the local variables of each handler thread

vars == <<books, members, loans, seq, clock, response, pc, local>>
store == <<books, members, loans, seq>>

Procs == {"h1", "h2"}
NoLocal == [book_id |-> 0, member_id |-> 0, copies |-> 0, active_loans |-> 0, loan_id |-> 0]

\* init_db on a fresh database file: three empty relations
init_db ==
    /\ books = <<>>
    /\ members = <<>>
    /\ loans = <<>>
    /\ seq = [books |-> 0, members |-> 0, loans |-> 0]

Init ==
    /\ init_db
    /\ clock = 0
    /\ response = "HOME_HTML"
    /\ pc = [p \in Procs |-> "idle"]
    /\ local = [p \in Procs |-> NoLocal]

(* --------------------------- store statements -------------------------- *)
\* a UNIQUE constraint that also compares NULL keys
UniqueViolation_nulls(rel, field, self, key) ==
    \E r \in DOMAIN rel : r # self /\ rel[r][field] = key

\* a UNIQUE check that compares an updated row with itself
UniqueViolation_self(rel, field, self, key) ==
    /\ key # NULL
    /\ \E r \in DOMAIN rel : rel[r][field] = key

\* isbn TEXT UNIQUE / email TEXT UNIQUE: a non-NULL key equal to the key of
\* another row (other than row `self`, 0 for an INSERT) violates the constraint.
UniqueViolation(rel, field, self, key) ==
    /\ key # NULL
    /\ \E r \in DOMAIN rel : r # self /\ rel[r][field] = key

\* SELECT COUNT(*) FROM loans WHERE book_id=? AND returned_on IS NULL
ActiveLoans(ls, b) ==
    Cardinality({l \in DOMAIN ls : ls[l].book_id = b /\ ls[l].returned_on = NULL})

\* an availability test that is off by one
NoCopies_gt(active, copies) == active > copies

\* if active_loans >= book['copies']
NoCopies(active, copies) == active >= copies

\* a return that never notices the loan is closed
AlreadyReturned_never(loan) == FALSE

\* if loan['returned_on']
AlreadyReturned(loan) == loan.returned_on # NULL /\ loan.returned_on # <<>>

\* INSERT INTO loans (book_id,member_id,borrowed_on): returned_on defaults to NULL;
\* the FOREIGN KEY clauses are not enforced (PRAGMA foreign_keys is never set).
InsertLoan(ls, id, b, m, now) ==
    ls @@ (id :> [book_id |-> b, member_id |-> m, borrowed_on |-> now, returned_on |-> NULL])

\* an UPDATE that closes every loan of the returned loan's book
UpdateReturned_book(ls, id, now) ==
    [l \in DOMAIN ls |->
        IF ls[l].book_id = ls[id].book_id THEN [ls[l] EXCEPT !.returned_on = now] ELSE ls[l]]

\* UPDATE loans SET returned_on=? WHERE id=?
UpdateReturned(ls, id, now) ==
    [l \in DOMAIN ls |-> IF l = id THEN [ls[l] EXCEPT !.returned_on = now] ELSE ls[l]]

\* DELETE FROM <rel> WHERE id=?
DeleteRow(rel, id) == [r \in DOMAIN rel \ {id} |-> rel[r]]

Quiet == UNCHANGED <<pc, local>>

\* ids taken as the largest stored rowid plus one (no AUTOINCREMENT)
add_book_rowid(method, title, author, isbn, copies) ==
    /\ Quiet
    /\ UNCHANGED <<members, loans, clock>>
    /\ IF method = "POST"
       THEN LET row == [title |-> strip(title), author |-> strip(author),
                        isbn |-> FormKey(isbn), copies |-> copies]
                id == IF books = <<>> THEN 1
                      ELSE 1 + CHOOSE b \in DOMAIN books : \A c \in DOMAIN books : c <= b
            IN IF UniqueViolation(books, "isbn", 0, row.isbn)
               THEN /\ response' = "ISBN must be unique"
                    /\ UNCHANGED <<books, seq>>
               ELSE /\ books' = books @@ (id :> row)
                    /\ seq' = [seq EXCEPT !.books = @ + 1]
                    /\ response' = "Book added"
       ELSE /\ response' = "ADD_BOOK_HTML"
            /\ UNCHANGED <<books, seq>>

(* ------------------------------- books --------------------------------- *)
add_book(method, title, author, isbn, copies) ==
    /\ Quiet
    /\ UNCHANGED <<members, loans, clock>>
    /\ IF method = "POST"
       THEN LET row == [title |-> strip(title), author |-> strip(author),
                        isbn |-> FormKey(isbn), copies |-> copies]
            IN IF UniqueViolation(books, "isbn", 0, row.isbn)
               THEN /\ response' = "ISBN must be unique"
                    /\ UNCHANGED <<books, seq>>
               ELSE /\ books' = books @@ ((seq.books + 1) :> row)
                    /\ seq' = [seq EXCEPT !.books = @ + 1]
                    /\ response' = "Book added"
       ELSE /\ response' = "ADD_BOOK_HTML"
            /\ UNCHANGED <<books, seq>>

edit_book(method, book_id, title, author, isbn, copies) ==
    /\ Quiet
    /\ UNCHANGED <<members, loans, clock, seq>>
    /\ IF book_id \notin DOMAIN books
       THEN /\ response' = "Book not found"
            /\ UNCHANGED books
       ELSE IF method = "POST"
       THEN LET row == [title |-> strip(title), author |-> strip(author),
                        isbn |-> FormKey(isbn), copies |-> copies]
            IN IF UniqueViolation(books, "isbn", book_id, row.isbn)
               THEN /\ response' = "ISBN must be unique"
                    /\ UNCHANGED books
               ELSE /\ books' = [books EXCEPT ![book_id] = row]
                    /\ response' = "Book updated"
       ELSE /\ response' = "EDIT_BOOK_HTML"
            /\ UNCHANGED books

\* a delete that cascades to the loans of the book
delete_book_cascade(book_id) ==
    /\ Quiet
    /\ UNCHANGED <<members, clock, seq>>
    /\ books' = DeleteRow(books, book_id)
    /\ loans' = [l \in {k \in DOMAIN loans : loans[k].book_id # book_id} |-> loans[l]]
    /\ response' = "Book deleted (if existed)"

delete_book(book_id) ==
    /\ Quiet
    /\ UNCHANGED <<members, loans, clock, seq>>
    /\ books' = DeleteRow(books, book_id)
    /\ response' = "Book deleted (if existed)"

\* search_online, POST: the INSERT names four columns and three placeholders,
\* so the statement is rejected when it is prepared; `except Exception` catches it.
search_online(title, author, isbn) ==
    /\ Quiet
    /\ UNCHANGED <<books, members, loans, clock, seq>>
    /\ response' = "Error adding book"

(* ------------------------------ members -------------------------------- *)
add_member(method, name, email) ==
    /\ Quiet
    /\ UNCHANGED <<books, loans, clock>>
    /\ IF method = "POST"
       THEN LET row == [name |-> strip(name), email |-> FormKey(email)]
            IN IF UniqueViolation(members, "email", 0, row.email)
               THEN /\ response' = "Email must be unique"
                    /\ UNCHANGED <<members, seq>>
               ELSE /\ members' = members @@ ((seq.members + 1) :> row)
                    /\ seq' = [seq EXCEPT !.members = @ + 1]
                    /\ response' = "Member added"
       ELSE /\ response' = "ADD_MEMBER_HTML"
            /\ UNCHANGED <<members, seq>>

edit_member(method, member_id, name, email) ==
    /\ Quiet
    /\ UNCHANGED <<books, loans, clock, seq>>
    /\ IF member_id \notin DOMAIN members
       THEN /\ response' = "Member not found"
            /\ UNCHANGED members
       ELSE IF method = "POST"
       THEN LET row == [name |-> strip(name), email |-> FormKey(email)]
            IN IF UniqueViolation(members, "email", member_id, row.email)
               THEN /\ response' = "Email must be unique"
                    /\ UNCHANGED members
               ELSE /\ members' = [members EXCEPT ![member_id] = row]
                    /\ response' = "Member updated"
       ELSE /\ response' = "EDIT_MEMBER_HTML"
            /\ UNCHANGED members

\* a delete that cascades to the loans of the member
delete_member_cascade(member_id) ==
    /\ Quiet
    /\ UNCHANGED <<books, clock, seq>>
    /\ members' = DeleteRow(members, member_id)
    /\ loans' = [l \in {k \in DOMAIN loans : loans[k].member_id # member_id} |-> loans[l]]
    /\ response' = "Member deleted (if existed)"

delete_member(member_id) ==
    /\ Quiet
    /\ UNCHANGED <<books, loans, clock, seq>>
    /\ members' = DeleteRow(members, member_id)
    /\ response' = "Member deleted (if existed)"

(* ------------------------- loans, whole calls --------------------------- *)
\* a borrow that inserts without looking the book up
borrow_book_unchecked(method, book_id, member_id) ==
    /\ Quiet
    /\ UNCHANGED <<books, members, clock>>
    /\ IF method = "POST"
       THEN /\ loans' = InsertLoan(loans, seq.loans + 1, book_id, member_id, isoformat(clock))
            /\ seq' = [seq EXCEPT !.loans = @ + 1]
            /\ response' = "Book borrowed"
       ELSE /\ response' = "BORROW_HTML"
            /\ UNCHANGED <<loans, seq>>

\* The form's member_id is any integer: the handler never looks it up.
borrow_book(method, book_id, member_id) ==
    /\ Quiet
    /\ UNCHANGED <<books, members, clock>>
    /\ IF book_id \notin DOMAIN books
       THEN /\ response' = "Book not found"
            /\ UNCHANGED <<loans, seq>>
       ELSE IF method = "POST"
       THEN IF NoCopies(ActiveLoans(loans, book_id), books[book_id].copies)
            THEN /\ response' = "No copies available"
                 /\ UNCHANGED <<loans, seq>>
            ELSE /\ loans' = InsertLoan(loans, seq.loans + 1, book_id, member_id,
                                        isoformat(clock))
                 /\ seq' = [seq EXCEPT !.loans = @ + 1]
                 /\ response' = "Book borrowed"
       ELSE /\ response' = "BORROW_HTML"
            /\ UNCHANGED <<loans, seq>>

return_book(loan_id) ==
    /\ Quiet
    /\ UNCHANGED <<books, members, clock, seq>>
    /\ IF loan_id \notin DOMAIN loans
       THEN /\ response' = "Loan not found"
            /\ UNCHANGED loans
       ELSE IF AlreadyReturned(loans[loan_id])
       THEN /\ response' = "Already returned"
            /\ UNCHANGED loans
       ELSE /\ loans' = UpdateReturned(loans, loan_id, isoformat(clock))
            /\ response' = "Book returned"

\* time passes between requests
Tick ==
    /\ clock' = clock + 1
    /\ UNCHANGED <<books, members, loans, seq, response, pc, local>>

(* --------------------- loans, statement by statement -------------------- *)
\* borrow_book line 353 (and the unused member list of line 357)
borrow_select(p, method, book_id, member_id) ==
    /\ pc[p] = "idle"
    /\ UNCHANGED <<store, clock>>
    /\ IF book_id \notin DOMAIN books
       THEN /\ response' = "Book not found"
            /\ UNCHANGED <<pc, local>>
       ELSE IF method = "POST"
       THEN /\ local' = [local EXCEPT ![p] = [NoLocal EXCEPT !.book_id = book_id,
                                  !.member_id = member_id,
                                  !.copies = books[book_id].copies]]
            /\ pc' = [pc EXCEPT ![p] = "borrow_count"]
            /\ UNCHANGED response
       ELSE /\ response' = "BORROW_HTML"
            /\ UNCHANGED <<pc, local>>

\* borrow_book lines 361-364
borrow_count(p) ==
    /\ pc[p] = "borrow_count"
    /\ UNCHANGED <<store, clock>>
    /\ LET active == ActiveLoans(loans, local[p].book_id)
       IN IF NoCopies(active, local[p].copies)
          THEN /\ response' = "No copies available"
               /\ pc' = [pc EXCEPT ![p] = "idle"]
               /\ local' = [local EXCEPT ![p] = NoLocal]
          ELSE /\ local' = [local EXCEPT ![p].active_loans = active]
               /\ pc' = [pc EXCEPT ![p] = "borrow_insert"]
               /\ UNCHANGED response

\* an insert that leaves the handler with a second write to make
borrow_insert_unfinished(p) ==
    /\ pc[p] = "borrow_insert"
    /\ UNCHANGED <<books, members, clock, response>>
    /\ loans' = InsertLoan(loans, seq.loans + 1, local[p].book_id, local[p].member_id,
                           isoformat(clock))
    /\ seq' = [seq EXCEPT !.loans = @ + 1]
    /\ pc' = [pc EXCEPT ![p] = "return_update"]
    /\ local' = [local EXCEPT ![p] = [NoLocal EXCEPT !.loan_id = seq.loans + 1]]

\* borrow_book lines 365-367
borrow_insert(p) ==
    /\ pc[p] = "borrow_insert"
    /\ UNCHANGED <<books, members, clock>>
    /\ loans' = InsertLoan(loans, seq.loans + 1, local[p].book_id, local[p].member_id,
                           isoformat(clock))
    /\ seq' = [seq EXCEPT !.loans = @ + 1]
    /\ response' = "Book borrowed"
    /\ pc' = [pc EXCEPT ![p] = "idle"]
    /\ local' = [local EXCEPT ![p] = NoLocal]

\* return_book lines 372-377
return_select(p, loan_id) ==
    /\ pc[p] = "idle"
    /\ UNCHANGED <<store, clock>>
    /\ IF loan_id \notin DOMAIN loans
       THEN /\ response' = "Loan not found"
            /\ UNCHANGED <<pc, local>>
       ELSE IF AlreadyReturned(loans[loan_id])
       THEN /\ response' = "Already returned"
            /\ UNCHANGED <<pc, local>>
       ELSE /\ local' = [local EXCEPT ![p] = [NoLocal EXCEPT !.loan_id = loan_id]]
            /\ pc' = [pc EXCEPT ![p] = "return_update"]
            /\ UNCHANGED response

\* return_book lines 379-381
return_update(p) ==
    /\ pc[p] = "return_update"
    /\ UNCHANGED <<books, members, clock, seq>>
    /\ loans' = UpdateReturned(loans, local[p].loan_id, isoformat(clock))
    /\ response' = "Book returned"
    /\ pc' = [pc EXCEPT ![p] = "idle"]
    /\ local' = [local EXCEPT ![p] = NoLocal]

(* ------------------------------ listing -------------------------------- *)
\* list_loans lines 334-339: the rows of loans JOIN books JOIN members, one per
\* loan whose book and member are both stored (as a set, the order left out)
list_loans ==
    {[id |-> l, borrowed_on |-> loans[l].borrowed_on, returned_on |-> loans[l].returned_on,
      title |-> books[loans[l].book_id].title, name |-> members[loans[l].member_id].name] :
        l \in {k \in DOMAIN loans : /\ loans[k].book_id \in DOMAIN books
                                   /\ loans[k].member_id \in DOMAIN members}}

(* ------------------ updates, statement by statement -------------------- *)
\* edit_book lines 207-210 (the form is read after the lookup)
edit_book_select(p, method, book_id) ==
    /\ pc[p] = "idle"
    /\ UNCHANGED <<store, clock>>
    /\ IF book_id \notin DOMAIN books
       THEN /\ response' = "Book not found"
            /\ UNCHANGED <<pc, local>>
       ELSE IF method = "POST"
       THEN /\ local' = [local EXCEPT ![p] = [NoLocal EXCEPT !.book_id = book_id]]
            /\ pc' = [pc EXCEPT ![p] = "edit_book_update"]
            /\ UNCHANGED response
       ELSE /\ response' = "EDIT_BOOK_HTML"
            /\ UNCHANGED <<pc, local>>

\* edit_book lines 212-221: UPDATE ... WHERE id=? changes no row if the book is gone
edit_book_update(p, title, author, isbn, copies) ==
    /\ pc[p] = "edit_book_update"
    /\ UNCHANGED <<members, loans, clock, seq>>
    /\ pc' = [pc EXCEPT ![p] = "idle"]
    /\ local' = [local EXCEPT ![p] = NoLocal]
    /\ LET id == local[p].book_id
           row == [title |-> strip(title), author |-> strip(author),
                   isbn |-> FormKey(isbn), copies |-> copies]
       IN IF id \in DOMAIN books /\ UniqueViolation(books, "isbn", id, row.isbn)
          THEN /\ response' = "ISBN must be unique"
               /\ UNCHANGED books
          ELSE /\ books' = [b \in DOMAIN books |-> IF b = id THEN row ELSE books[b]]
               /\ response' = "Book updated"

\* edit_member lines 284-287
edit_member_select(p, method, member_id) ==
    /\ pc[p] = "idle"
    /\ UNCHANGED <<store, clock>>
    /\ IF member_id \notin DOMAIN members
       THEN /\ response' = "Member not found"
            /\ UNCHANGED <<pc, local>>
       ELSE IF method = "POST"
       THEN /\ local' = [local EXCEPT ![p] = [NoLocal EXCEPT !.member_id = member_id]]
            /\ pc' = [pc EXCEPT ![p] = "edit_member_update"]
            /\ UNCHANGED response
       ELSE /\ response' = "EDIT_MEMBER_HTML"
            /\ UNCHANGED <<pc, local>>

\* edit_member lines 289-296
edit_member_update(p, name, email) ==
    /\ pc[p] = "edit_member_update"
    /\ UNCHANGED <<books, loans, clock, seq>>
    /\ pc' = [pc EXCEPT ![p] = "idle"]
    /\ local' = [local EXCEPT ![p] = NoLocal]
    /\ LET id == local[p].member_id
           row == [name |-> strip(name), email |-> FormKey(email)]
       IN IF id \in DOMAIN members /\ UniqueViolation(members, "email", id, row.email)
          THEN /\ response' = "Email must be unique"
               /\ UNCHANGED members
          ELSE /\ members' = [m \in DOMAIN members |-> IF m = id THEN row ELSE members[m]]
               /\ response' = "Member updated"

\* the caller gives the request up between two statements: the handler stops,
\* close_connection closes its connection, nothing is left to commit
Abandon(p) ==
    /\ pc[p] # "idle"
    /\ pc' = [pc EXCEPT ![p] = "idle"]
    /\ local' = [local EXCEPT ![p] = NoLocal]
    /\ UNCHANGED <<store, clock, response>>

(* ---------------------------- request inputs ---------------------------- *)
\* the form fields a POST may carry; a GET carries no form
TitleInputs == {<<"D">>}
AuthorInputs == {<<>>}
NameInputs == {<<"A">>}
IsbnInputs == {<<>>, <<" ">>, <<"1">>, <<"1", " ">>, <<"2">>}
EmailInputs == {<<>>, <<"a">>, <<" ", "a">>}

(* ------------------- SpecCatalog: the entity store ---------------------- *)
\* serialized calls of the book and member handlers, over several records
\* and keys; every book is posted with one copy
CopiesInputs == {1}
CatBookIds == 1 .. MaxBooks
CatMemberIds == 1 .. MaxMembers

NextCatalog ==
    \/ \E t \in TitleInputs, a \in AuthorInputs, i \in IsbnInputs, c \in CopiesInputs :
           seq.books < MaxBooks /\ add_book("POST", t, a, i, c)
    \/ add_book("GET", <<>>, <<>>, <<>>, 1)
    \/ \E b \in CatBookIds, t \in TitleInputs, a \in AuthorInputs, i \in IsbnInputs,
          c \in CopiesInputs :
           edit_book("POST", b, t, a, i, c)
    \/ \E b \in CatBookIds : edit_book("GET", b, <<>>, <<>>, <<>>, 1)
    \/ \E b \in CatBookIds : delete_book(b)
    \/ \E t \in TitleInputs, a \in AuthorInputs : search_online(t, a, <<"1">>)
    \/ \E n \in NameInputs, e \in EmailInputs :
           seq.members < MaxMembers /\ add_member("POST", n, e)
    \/ add_member("GET", <<>>, <<>>)
    \/ \E id \in CatMemberIds, n \in NameInputs, e \in EmailInputs :
           edit_member("POST", id, n, e)
    \/ \E id \in CatMemberIds : edit_member("GET", id, <<>>, <<>>)
    \/ \E id \in CatMemberIds : delete_member(id)

SpecCatalog == Init /\ [][NextCatalog]_vars

(* ------------------- SpecCopies: the copies of a book ------------------- *)
\* serialized calls of the book handlers with any integer the form can post
\* as copies, valid or not
AnyCopies == -1 .. 2

CopiesTitles == {<<"D">>, <<"E", " ">>}

NextCopies ==
    \/ \E t \in CopiesTitles, c \in AnyCopies :
           seq.books < MaxBooks /\ add_book("POST", t, <<>>, <<>>, c)
    \/ add_book("GET", <<>>, <<>>, <<>>, 1)
    \/ \E b \in CatBookIds, t \in CopiesTitles, c \in AnyCopies :
           edit_book("POST", b, t, <<>>, <<>>, c)
    \/ \E b \in CatBookIds : edit_book("GET", b, <<>>, <<>>, <<>>, 1)
    \/ \E b \in CatBookIds : delete_book(b)

SpecCopies == Init /\ [][NextCopies]_vars

(* --------------------- Spec: the loan lifecycle ------------------------- *)
\* serialized calls of every handler on the loans of one book and one
\* member (SpecCatalog has several records); the book is posted with a valid
\* copies count and without a key.  The id a request names is absent before
\* it is assigned and after it is deleted.
BookIds == {1}
MemberIds == {1}
LoanIds == 1 .. MaxLoans

Next ==
    \/ \E c \in 1 .. 2 : seq.books + 1 \in BookIds /\ add_book("POST", <<"D">>, <<>>, <<>>, c)
    \/ \E b \in BookIds, c \in 1 .. 2 : edit_book("POST", b, <<"D">>, <<>>, <<>>, c)
    \/ \E b \in BookIds : delete_book(b)
    \/ search_online(<<"D">>, <<>>, <<>>)
    \/ seq.members + 1 \in MemberIds /\ add_member("POST", <<"A">>, <<>>)
    \/ \E id \in MemberIds : edit_member("POST", id, <<"A">>, <<>>)
    \/ \E id \in MemberIds : delete_member(id)
    \/ \E b \in BookIds, id \in MemberIds :
           seq.loans < MaxLoans /\ borrow_book("POST", b, id)
    \/ \E b \in BookIds : borrow_book("GET", b, 0)
    \/ \E l \in LoanIds : return_book(l)
    \/ clock < MaxClock /\ Tick

Spec == Init /\ [][Next]_vars

(* --------------- SpecConc: concurrent borrow and return ----------------- *)
\* a store that add_book and add_member have filled: one book, one member
InitConc ==
    /\ \E c \in 1 .. 2 :
           books = (1 :> [title |-> <<"D">>, author |-> <<>>, isbn |-> NULL, copies |-> c])
    /\ members = (1 :> [name |-> <<"A">>, email |-> NULL])
    /\ loans = <<>>
    /\ seq = [books |-> 1, members |-> 1, loans |-> 0]
    /\ clock = 0
    /\ response = "HOME_HTML"
    /\ pc = [p \in Procs |-> "idle"]
    /\ local = [p \in Procs |-> NoLocal]

Borrowing == {p \in Procs : pc[p] \in {"borrow_count", "borrow_insert"}}

NextConc ==
    \/ \E p \in Procs :
           /\ seq.loans + Cardinality(Borrowing) < ConcLoans
           /\ borrow_select(p, "POST", 1, 1)
    \/ \E p \in Procs : borrow_select(p, "GET", 1, 0)
    \/ \E p \in Procs : borrow_count(p)
    \/ \E p \in Procs : borrow_insert(p)
    \/ \E p \in Procs, l \in 1 .. ConcLoans : return_select(p, l)
    \/ \E p \in Procs : return_update(p)
    \/ delete_book(1)
    \/ delete_member(1)
    \/ clock < MaxClock /\ Tick

SpecConc == InitConc /\ [][NextConc]_vars

(* ------------- SpecIds: records created after deletions ----------------- *)
\* serialized creates and deletes of books, members and loans (a loan is
\* created by a borrow and never deleted), each book with one copy
NextIds ==
    \/ seq.books < MaxBooks /\ add_book("POST", <<"D">>, <<>>, <<>>, 1)
    \/ \E b \in CatBookIds : delete_book(b)
    \/ seq.members < MaxMembers /\ add_member("POST", <<"A">>, <<>>)
    \/ \E id \in CatMemberIds : delete_member(id)
    \/ \E b \in CatBookIds, id \in CatMemberIds :
           seq.loans < ConcLoans /\ borrow_book("POST", b, id)

SpecIds == Init /\ [][NextIds]_vars

(* ---------- SpecAbandon: every handler, statement by statement ---------- *)
\* the handlers of two threads on one book and one member; a request may be
\* given up at any statement
NextAbandon ==
    \/ \E c \in 1 .. 2 : seq.books + 1 \in BookIds /\ add_book("POST", <<"D">>, <<>>, <<>>, c)
    \/ \E p \in Procs, b \in BookIds, m \in {"GET", "POST"} : edit_book_select(p, m, b)
    \/ \E p \in Procs, c \in 1 .. 2 : edit_book_update(p, <<"D">>, <<>>, <<>>, c)
    \/ \E b \in BookIds : delete_book(b)
    \/ seq.members + 1 \in MemberIds /\ add_member("POST", <<"A">>, <<>>)
    \/ \E p \in Procs, id \in MemberIds, m \in {"GET", "POST"} : edit_member_select(p, m, id)
    \/ \E p \in Procs : edit_member_update(p, <<"A">>, <<>>)
    \/ \E id \in MemberIds : delete_member(id)
    \/ \E p \in Procs, b \in BookIds, id \in MemberIds :
           /\ seq.loans + Cardinality(Borrowing) < ConcLoans
           /\ borrow_select(p, "POST", b, id)
    \/ \E p \in Procs : borrow_count(p)
    \/ \E p \in Procs : borrow_insert(p)
    \/ \E p \in Procs, l \in 1 .. ConcLoans : return_select(p, l)
    \/ \E p \in Procs : return_update(p)
    \/ \E p \in Procs : Abandon(p)

SpecAbandon == Init /\ [][NextAbandon]_vars

(* ======================================================================= *)
(*                               properties                                *)
(* ======================================================================= *)
OpenLoansOf(b) == {l \in DOMAIN loans : loans[l].book_id = b /\ loans[l].returned_on = NULL}

\* C1 (SpecConc): after any interleaving of the statements of borrow and
\* return handlers, no book has more open loans than copies.
C1_NoOversubscription ==
    \A b \in DOMAIN books : Cardinality(OpenLoansOf(b)) <= books[b].copies

\* C2 (Spec): a serialized borrow of an existing book whose open-loan count
\* equals its copies answers "No copies available" and leaves loans as they
\* were; on a book with one copy and no open loan it succeeds and opens
\* exactly one loan, so that the next borrow is the rejected one.
C2_BorrowRejectedWhenFull ==
    [][\A b \in BookIds, m \in MemberIds :
          (borrow_book("POST", b, m) /\ b \in DOMAIN books) =>
              /\ (ActiveLoans(loans, b) = books[b].copies) =>
                     (response' = "No copies available" /\ loans' = loans /\ seq' = seq)
              /\ (books[b].copies = 1 /\ ActiveLoans(loans, b) = 0) =>
                     /\ response' = "Book borrowed"
                     /\ ActiveLoans(loans', b) = 1
                     /\ ActiveLoans(loans', b) = books'[b].copies]_vars

\* a borrow has just been rejected on a one-copy book whose copy is out
C2_Witness ==
    /\ response = "No copies available"
    /\ \E b \in DOMAIN books : books[b].copies = 1 /\ ActiveLoans(loans, b) = 1

\* C3 (Spec): every loan references, at the step that inserts it, a book and
\* a member that are in the store.
C3_LoanReferencesExist ==
    [][\A l \in DOMAIN loans' \ DOMAIN loans :
          /\ loans'[l].book_id \in DOMAIN books'
          /\ loans'[l].member_id \in DOMAIN members']_vars

\* C4 (Spec): a serialized return of an open loan sets returned_on; a return
\* of a closed loan answers "Already returned" and changes no loan.
C4_ReturnIdempotent ==
    [][\A l \in LoanIds :
          (return_book(l) /\ l \in DOMAIN loans) =>
              IF loans[l].returned_on = NULL
              THEN /\ loans'[l].returned_on # NULL
                   /\ response' = "Book returned"
                   /\ \A k \in DOMAIN loans \ {l} : loans'[k] = loans[k]
              ELSE /\ response' = "Already returned"
                   /\ loans' = loans]_vars

\* a redundant return has just been answered, at a later time than the return
C4_Witness ==
    /\ response = "Already returned"
    /\ \E l \in DOMAIN loans :
           loans[l].returned_on # NULL /\ loans[l].returned_on # isoformat(clock)

\* C5 (SpecConc): once returned_on of a loan is set, no step writes it again.
C5_ClosedIsTerminal ==
    [][\A l \in DOMAIN loans :
          loans[l].returned_on # NULL =>
              l \in DOMAIN loans' /\ loans'[l].returned_on = loans[l].returned_on]_vars

\* C6 (Spec): with serialized calls a borrow of an existing book succeeds
\* exactly while fewer loans are open than the book has copies, each success
\* opening one loan, and the return of an open loan lowers the open-loan
\* count of its book by exactly one and of no other book.
C6_ReturnFreesOneCopy ==
    [][/\ \A b \in BookIds, m \in MemberIds :
             (borrow_book("POST", b, m) /\ b \in DOMAIN books) =>
                 IF ActiveLoans(loans, b) < books[b].copies
                 THEN /\ response' = "Book borrowed"
                      /\ ActiveLoans(loans', b) = ActiveLoans(loans, b) + 1
                      /\ loans'[seq'.loans].returned_on = NULL
                 ELSE /\ response' = "No copies available"
                      /\ loans' = loans
       /\ \A l \in LoanIds :
             (return_book(l) /\ l \in DOMAIN loans /\ loans[l].returned_on = NULL) =>
                 \A b \in BookIds :
                     ActiveLoans(loans', b) =
                         ActiveLoans(loans, b) - (IF b = loans[l].book_id THEN 1 ELSE 0)]_vars

\* the end of the scenario: a two-copy book whose first loan is closed and
\* whose second and third loans are open, the third just borrowed
C6_Witness ==
    /\ response = "Book borrowed"
    /\ \E b \in DOMAIN books :
           /\ books[b].copies = 2
           /\ DOMAIN loans = 1 .. 3
           /\ \A l \in 1 .. 3 : loans[l].book_id = b
           /\ loans[1].returned_on # NULL
           /\ loans[2].returned_on = NULL
           /\ loans[3].returned_on = NULL

\* C7 (Spec): in every state reached by serialized calls, every stored book
\* has at most as many open loans as copies.
C7_OpenLoansWithinCopies ==
    \A b \in DOMAIN books : ActiveLoans(loans, b) <= books[b].copies

\* C8 (SpecCatalog): every stored book has copies >= 1.
C8_CopiesPositive ==
    \A b \in DOMAIN books : books[b].copies >= 1

\* C9 (SpecCatalog): add_book with the isbn of a stored book, and add_member
\* with the email of a stored member, is rejected and changes nothing in the
\* store; add_book without an isbn always adds the book.
C9_DuplicateKeyRejected ==
    [][/\ \A t \in TitleInputs, a \in AuthorInputs, i \in IsbnInputs, c \in CopiesInputs :
             add_book("POST", t, a, i, c) =>
                 /\ (\E b \in DOMAIN books : FormKey(i) # NULL /\ books[b].isbn = FormKey(i)) =>
                        (response' = "ISBN must be unique" /\ UNCHANGED store)
                 /\ FormKey(i) = NULL =>
                        /\ response' = "Book added"
                        /\ DOMAIN books' = DOMAIN books \cup {seq.books + 1}
                        /\ seq.books + 1 \notin DOMAIN books
                        /\ books'[seq.books + 1].isbn = NULL
       /\ \A n \in NameInputs, e \in EmailInputs :
             add_member("POST", n, e) =>
                 ((\E m \in DOMAIN members :
                       FormKey(e) # NULL /\ members[m].email = FormKey(e)) =>
                      (response' = "Email must be unique" /\ UNCHANGED store))]_vars

\* a second book was refused for its isbn while a first, the only one ever
\* added, holds that isbn
C9_Witness ==
    /\ response = "ISBN must be unique"
    /\ seq.books = 1
    /\ DOMAIN books = {1}
    /\ books[1].isbn # NULL

UniqueKeys(rel, field) ==
    \A r1, r2 \in DOMAIN rel :
        (r1 # r2 /\ rel[r1][field] # NULL) => rel[r1][field] # rel[r2][field]

\* C10 (SpecCatalog): no two books share a non-NULL isbn and no two members a
\* non-NULL email; an update to the key of another record is rejected and
\* changes nothing, any other update (one that keeps the record's own key
\* included) is carried out.
C10_KeysStayUnique ==
    [][/\ UniqueKeys(books', "isbn")
       /\ UniqueKeys(members', "email")
       /\ \A b \in CatBookIds, t \in TitleInputs, a \in AuthorInputs, i \in IsbnInputs,
             c \in CopiesInputs :
             (edit_book("POST", b, t, a, i, c) /\ b \in DOMAIN books) =>
                 IF \E o \in DOMAIN books \ {b} : FormKey(i) # NULL /\ books[o].isbn = FormKey(i)
                 THEN response' = "ISBN must be unique" /\ UNCHANGED store
                 ELSE response' = "Book updated" /\ books'[b].isbn = FormKey(i)
       /\ \A m \in CatMemberIds, n \in NameInputs, e \in EmailInputs :
             (edit_member("POST", m, n, e) /\ m \in DOMAIN members) =>
                 IF \E o \in DOMAIN members \ {m} :
                        FormKey(e) # NULL /\ members[o].email = FormKey(e)
                 THEN response' = "Email must be unique" /\ UNCHANGED store
                 ELSE response' = "Member updated" /\ members'[m].email = FormKey(e)]_vars

\* an update was refused while every id is assigned (no add_book can run) and
\* two books are stored
C10_Witness ==
    /\ response = "ISBN must be unique"
    /\ seq.books = MaxBooks
    /\ Cardinality(DOMAIN books) >= 2

\* C11 (Spec): delete_book and delete_member always answer "deleted",
\* remove at most the addressed row, and change no loan and no other
\* relation; on an absent id they change nothing in the store.
C11_DeleteNoCascade ==
    [][/\ \A b \in BookIds :
             delete_book(b) =>
                 /\ response' = "Book deleted (if existed)"
                 /\ DOMAIN books' = DOMAIN books \ {b}
                 /\ \A o \in DOMAIN books' : books'[o] = books[o]
                 /\ loans' = loans /\ members' = members /\ seq' = seq
                 /\ b \notin DOMAIN books => UNCHANGED store
       /\ \A m \in MemberIds :
             delete_member(m) =>
                 /\ response' = "Member deleted (if existed)"
                 /\ DOMAIN members' = DOMAIN members \ {m}
                 /\ \A o \in DOMAIN members' : members'[o] = members[o]
                 /\ loans' = loans /\ books' = books /\ seq' = seq
                 /\ m \notin DOMAIN members => UNCHANGED store]_vars

\* the book of a stored open loan has just been deleted
C11_Witness ==
    /\ response = "Book deleted (if existed)"
    /\ \E l \in DOMAIN loans :
           loans[l].book_id \notin DOMAIN books /\ loans[l].returned_on = NULL

\* C12 (SpecCatalog): search_online's POST adds exactly one book with the
\* posted title, author and isbn and one copy whenever the isbn is null or
\* not the isbn of a stored book.
C12_ImportAddsBook ==
    [][\A t \in TitleInputs, a \in AuthorInputs, i \in IsbnInputs :
          (search_online(t, a, i)
             /\ ~ \E b \in DOMAIN books : OrNone(i) # NULL /\ books[b].isbn = OrNone(i)) =>
              /\ DOMAIN books' = DOMAIN books \cup {seq.books + 1}
              /\ seq.books + 1 \notin DOMAIN books
              /\ books'[seq.books + 1] =
                     [title |-> t, author |-> a, isbn |-> OrNone(i), copies |-> 1]]_vars

\* C13 (Spec): with serialized calls borrow on an absent book, return of an
\* absent loan and an update of an absent book or member answer "not found"
\* and leave the store unchanged.
C13_AbsentIdNoEffect ==
    [][/\ \A b \in BookIds, m \in MemberIds, meth \in {"GET", "POST"} :
             (b \notin DOMAIN books /\ borrow_book(meth, b, m)) =>
                 (response' = "Book not found" /\ UNCHANGED store)
       /\ \A l \in LoanIds :
             (l \notin DOMAIN loans /\ return_book(l)) =>
                 (response' = "Loan not found" /\ UNCHANGED store)
       /\ \A b \in BookIds, c \in 1 .. 2, meth \in {"GET", "POST"} :
             (b \notin DOMAIN books /\ edit_book(meth, b, <<"D">>, <<>>, <<>>, c)) =>
                 (response' = "Book not found" /\ UNCHANGED store)
       /\ \A m \in MemberIds, meth \in {"GET", "POST"} :
             (m \notin DOMAIN members /\ edit_member(meth, m, <<"A">>, <<>>)) =>
                 (response' = "Member not found" /\ UNCHANGED store)]_vars

\* a request has just named the book that was deleted while a loan of it is stored
C13_Witness ==
    /\ response = "Book not found"
    /\ seq.books = 1
    /\ books = <<>>
    /\ loans # <<>>

\* C14 (Spec): with serialized borrows and a clock that only advances, the
\* borrowed_on texts of the loans of one book do not decrease in loan id order.
C14_BorrowedOnMonotonic ==
    \A l1, l2 \in DOMAIN loans :
        (l1 < l2 /\ loans[l1].book_id = loans[l2].book_id) =>
            TextLeq(loans[l1].borrowed_on, loans[l2].borrowed_on)

\* two loans of one book borrowed at different times
C14_Witness ==
    \E l1, l2 \in DOMAIN loans :
        /\ l1 < l2
        /\ loans[l1].book_id = loans[l2].book_id
        /\ loans[l1].borrowed_on # loans[l2].borrowed_on

\* C15 (Spec): no step removes a loan or changes the book_id, member_id or
\* borrowed_on stored under a loan id, and a step that changes a stored loan
\* is a return_book call that sets the returned_on of that one open loan.
C15_LoansOnlyReturned ==
    [][/\ \A l \in DOMAIN loans :
             /\ l \in DOMAIN loans'
             /\ loans'[l].book_id = loans[l].book_id
             /\ loans'[l].member_id = loans[l].member_id
             /\ loans'[l].borrowed_on = loans[l].borrowed_on
       /\ \A l \in DOMAIN loans :
             (l \in DOMAIN loans' /\ loans'[l] # loans[l]) =>
                 /\ return_book(l)
                 /\ loans[l].returned_on = NULL
                 /\ loans'[l].returned_on # NULL
                 /\ \A k \in DOMAIN loans \ {l} : k \in DOMAIN loans' /\ loans'[k] = loans[k]]_vars

\* a closed loan is stored whose book and member have both been deleted
C15_Witness ==
    \E l \in DOMAIN loans :
        /\ loans[l].returned_on # NULL
        /\ seq.books = 1 /\ books = <<>>
        /\ seq.members = 1 /\ members = <<>>
        /\ loans[l].book_id = 1 /\ loans[l].member_id = 1

\* C16 (SpecAbandon): a step that changes the store is the last statement of
\* its handler, so a handler that is still in flight, and may yet be given
\* up, has written nothing; giving it up changes nothing in the store.
C16_OneCommittedWrite ==
    [][/\ store' # store => \A p \in Procs : pc'[p] # pc[p] => pc'[p] = "idle"
       /\ \A p \in Procs : Abandon(p) => UNCHANGED store]_vars

\* both threads are in flight, each before its write, with a loan stored
C16_Witness ==
    /\ pc["h1"] = "borrow_insert"
    /\ pc["h2"] = "return_update"
    /\ loans # <<>>

\* C17 (SpecIds): ids are never reused. The sequence counters never go down,
\* every stored id is at most its counter, and a record created by a step gets
\* an id above the counter, hence different from every id assigned before; so
\* a loan that references an id assigned before (its record deleted or not)
\* never comes to reference a record created later.
C17_IdsNeverReused ==
    [][/\ seq'.books >= seq.books /\ seq'.members >= seq.members /\ seq'.loans >= seq.loans
       /\ \A b \in DOMAIN books' : b <= seq'.books
       /\ \A m \in DOMAIN members' : m <= seq'.members
       /\ \A l \in DOMAIN loans' : l <= seq'.loans
       /\ \A b \in DOMAIN books' \ DOMAIN books : b > seq.books
       /\ \A m \in DOMAIN members' \ DOMAIN members : m > seq.members
       /\ \A l \in DOMAIN loans' \ DOMAIN loans : l > seq.loans
       /\ \A l \in DOMAIN loans :
              /\ loans[l].book_id <= seq.books
                     => loans[l].book_id \notin DOMAIN books' \ DOMAIN books
              /\ loans[l].member_id <= seq.members
                     => loans[l].member_id \notin DOMAIN members' \ DOMAIN members]_vars

\* a loan of book 1 to member 1 is dangling on both sides, and a later book
\* and a later member exist under id 2
C17_Witness ==
    /\ \E l \in DOMAIN loans : loans[l].book_id = 1 /\ loans[l].member_id = 1
    /\ DOMAIN books = {2}
    /\ DOMAIN members = {2}

\* C18 (Spec): the listing of loans holds exactly one row for every stored
\* loan, whether or not its book and its member are still stored.
C18_ListShowsEveryLoan ==
    \A l \in DOMAIN loans : Cardinality({v \in list_loans : v.id = l}) = 1

====
